---------------------------- MODULE Spec2Model ----------------------------
(***************************************************************************)
(* A model of ide2py/psp.py: the PSP stopwatch (PSPMixin), the plan        *)
(* summary table (PlanSummaryTable) and the defect recording log           *)
(* (DefectListCtrl).                                                       *)
(*                                                                         *)
(* Python values are represented as follows.  None is the integer -1       *)
(* where the field otherwise holds a natural number (psp_interruption,     *)
(* selected_index, selecteditemindex, fix_time, number) and the string     *)
(* "None" for an event argument.  A dict is a function whose DOMAIN is     *)
(* the set of its keys.  Timestamps of log lines are left out: they come   *)
(* from the wall clock and nothing reads them back.                        *)
(***************************************************************************)
EXTENDS Integers, Sequences, FiniteSets, TLC

VARIABLES
    timer,                    \* wx.Timer: TRUE while running (ticks are delivered)
    psp_interruption,         \* None or the seconds of the running interruption
    psp_automatic_stopwatch,  \* FALSE after an operator used start/pause/stop
    psp_phase_choice,         \* selection of the phase choice box ("" = none)
    task_id,                  \* TRUE when a task is selected
    task_suspended,           \* TRUE while the selected task is suspended
    times,                    \* psptimetable.data: phase -> (time key -> seconds)
    times_loaded,             \* psptimetable.data is not None
    log,                      \* lines written to psp_event_log_file, in order
    defects,                  \* the defect shelf: uuid -> item
    defects_loaded,           \* psp_defect_list.data is not None
    rows,                     \* list control rows: the item data of each row
    key_map,                  \* DefectListCtrl.key_map: pos -> uuid
    selected_index,           \* DefectListCtrl.selected_index (None or a row)
    selecteditemindex,        \* DefectListCtrl.selecteditemindex (None or a row)
    next_uuid,                \* number of uuids handed out by uuid.uuid1()
    current_psp_phase,        \* PSPMixin._current_psp_phase
    files,                    \* the source files: path -> [lines, mtime]
    psp_metadata_cache,       \* path -> [timestamp, metadata]
    metadata_files,           \* the pickled metadata: path -> metadata
    counter,                  \* a time count in seconds (None or a number)
    user_input,               \* the text of a time: typed, or rendered
    synced,                   \* the shelves as last written to the database
    lastOp                    \* history: the handler that ran last, with its inputs

vars == <<timer, psp_interruption, psp_automatic_stopwatch, psp_phase_choice,
          task_id, task_suspended, times, times_loaded, log, defects,
          defects_loaded, rows, key_map, selected_index, selecteditemindex,
          next_uuid, current_psp_phase, files, psp_metadata_cache,
          metadata_files, counter, user_input, synced, lastOp>>

\* The program's own state: everything but the history variable.
progVars == <<timer, psp_interruption, psp_automatic_stopwatch,
              psp_phase_choice, task_id, task_suspended, times, times_loaded,
              log, defects, defects_loaded, rows, key_map, selected_index,
              selecteditemindex, next_uuid, current_psp_phase, files,
              psp_metadata_cache, metadata_files, counter, user_input,
              synced>>


---------------------------------------------------------------------------
\* Bounds of the model.

MaxTicks == 2        \* seconds counted in all (table totals and accumulator)
MaxLog == 5          \* lines of the event log
MaxDefects == 3      \* uuids handed out
MaxLines == 3        \* lines of a source file
MaxWrites == 2       \* modification times of a source file
MaxSeconds == 3700   \* the time counts given to pretty_time
MaxChars == 4        \* characters of a text given to parse_time

---------------------------------------------------------------------------
\* Program constants.

None == -1

NoEvent == "None"
MenuEvent == "menu"
Events == {NoEvent, MenuEvent}

PSP_PHASES == <<"planning", "design", "code", "review", "compile", "test",
                "postmortem">>

Phases == {PSP_PHASES[i] : i \in 1..Len(PSP_PHASES)}

\* Inputs drawn by the model.
PhaseChoices == {"", "code", "test"}
Messages == {"", "phone call"}
Summaries == {"s1", "s2"}
Linenos == {1, 2}
Paths == {"a.py"}
Texts == {"x", "y"}

\* uuid.uuid1(): a fresh string at every call.
UUIDS == <<"u1", "u2", "u3", "u4", "u5", "u6">>
NoKey == "None"

---------------------------------------------------------------------------
\* Dictionaries.

EmptyDict == [k \in {} |-> 0]

Get(d, k, default) == IF k \in DOMAIN d THEN d[k] ELSE default

Put(d, k, v) == [x \in (DOMAIN d) \cup {k} |-> IF x = k THEN v ELSE d[x]]

Truthy(n) == n # None /\ n # 0

RECURSIVE SetMax(_)
SetMax(S) ==
    IF S = {} THEN 0
    ELSE LET x == CHOOSE y \in S : TRUE
             m == SetMax(S \ {x})
         IN IF x > m THEN x ELSE m

RECURSIVE SetSum(_, _)
SetSum(f, S) ==
    IF S = {} THEN 0
    ELSE LET x == CHOOSE y \in S : TRUE IN f[x] + SetSum(f, S \ {x})

---------------------------------------------------------------------------
\* The program state as one record, so that a handler is a function from
\* state to state and a handler that calls another is a composition.

St == [timer |-> timer, psp_interruption |-> psp_interruption,
       psp_automatic_stopwatch |-> psp_automatic_stopwatch,
       psp_phase_choice |-> psp_phase_choice, task_id |-> task_id,
       task_suspended |-> task_suspended, times |-> times,
       times_loaded |-> times_loaded, log |-> log, defects |-> defects,
       defects_loaded |-> defects_loaded, rows |-> rows, key_map |-> key_map,
       selected_index |-> selected_index,
       selecteditemindex |-> selecteditemindex, next_uuid |-> next_uuid,
       current_psp_phase |-> current_psp_phase,
       files |-> files, psp_metadata_cache |-> psp_metadata_cache,
       metadata_files |-> metadata_files,
       counter |-> counter, user_input |-> user_input, synced |-> synced,
       raised |-> "", returned |-> NoKey]

\* The handler ran to state s; op names it and its inputs.  returned is the
\* value the handler returned when it is a key, NoKey for Python's None.
Becomes(s, op) ==
    /\ timer' = s.timer
    /\ psp_interruption' = s.psp_interruption
    /\ psp_automatic_stopwatch' = s.psp_automatic_stopwatch
    /\ psp_phase_choice' = s.psp_phase_choice
    /\ task_id' = s.task_id
    /\ task_suspended' = s.task_suspended
    /\ times' = s.times
    /\ times_loaded' = s.times_loaded
    /\ log' = s.log
    /\ defects' = s.defects
    /\ defects_loaded' = s.defects_loaded
    /\ rows' = s.rows
    /\ key_map' = s.key_map
    /\ selected_index' = s.selected_index
    /\ selecteditemindex' = s.selecteditemindex
    /\ next_uuid' = s.next_uuid
    /\ current_psp_phase' = s.current_psp_phase
    /\ files' = s.files
    /\ psp_metadata_cache' = s.psp_metadata_cache
    /\ metadata_files' = s.metadata_files
    /\ counter' = s.counter
    /\ user_input' = s.user_input
    /\ synced' = s.synced
    /\ lastOp' = op @@ [raised |-> s.raised, returned |-> s.returned]

\* An exception leaves the handler: the state is as it was at the raise.
Raise(s, what) == [s EXCEPT !.raised = what]

\* Shelf.sync(): the records of the shelf, as they are in memory at the
\* call, are written to the database.
Shelf_sync(s, table) ==
    IF table = "defect" THEN [s EXCEPT !.synced.defect = s.defects]
    ELSE [s EXCEPT !.synced.time_summary = s.times]

---------------------------------------------------------------------------
\* PSPMixin: the event log and the phase choice.

GetPSPPhase(s) == s.psp_phase_choice

NoItem == <<>>

psp_log_event(s, event, uuid, comment, item) ==
    [s EXCEPT !.log = Append(@, [event |-> event, uuid |-> uuid,
                                 phase |-> GetPSPPhase(s),
                                 comment |-> comment, item |-> item])]

---------------------------------------------------------------------------
\* pretty_time and parse_time.  A text is the sequence of its characters.
\* A float is the fraction [num, den] it is nearest to; an int n is
\* [num |-> n, den |-> 1].

Digits == <<"0", "1", "2", "3", "4", "5", "6", "7", "8", "9">>

isdigit(c) == \E i \in 1..10 : Digits[i] = c

DigitValue(c) == (CHOOSE i \in 1..10 : Digits[i] = c) - 1

\* "%d" % n for n >= 0.
RECURSIVE FormatD(_)
FormatD(n) ==
    IF n < 10 THEN <<Digits[n + 1]>>
    ELSE Append(FormatD(n \div 10), Digits[(n % 10) + 1])

\* "%0.2f" % (c / factor) for a count c >= 0: the hundredth nearest to
\* the quotient.  The quotient is halfway between two hundredths only for
\* the factor 3600, and for every count below 4086 the double nearest to
\* it lies below the half, so the lower hundredth is printed.
Format02f(c, factor) ==
    LET n == 2 * 100 * c
        hundredths == (n - factor + 2 * factor - 1) \div (2 * factor)
    IN FormatD(hundredths \div 100)
           \o <<".", Digits[((hundredths % 100) \div 10) + 1],
                Digits[(hundredths % 10) + 1]>>

\* ((1., 's'), (60., 'm'), (3600., 'h'))
TimeUnits == <<[factor |-> 1, unit |-> "s"], [factor |-> 60, unit |-> "m"],
               [factor |-> 3600, unit |-> "h"]>>

\* The loop of pretty_time: it breaks at the first unit with
\* counter < 60 * factor, and is left with the last one when none breaks.
RECURSIVE PrettyUnit(_, _)
PrettyUnit(c, i) ==
    IF c < 60 * TimeUnits[i].factor \/ i = Len(TimeUnits)
    THEN TimeUnits[i]
    ELSE PrettyUnit(c, i + 1)

\* A variant of pretty_time that prints the fraction at every count.
pretty_time_alwaysFraction(c) ==
    IF c = None THEN <<>>
    ELSE LET u == PrettyUnit(c, 1)
         IN Format02f(c, u.factor) \o <<" ", u.unit>>

\* pretty_time(counter), counter None or an int >= 0.
pretty_time(c) ==
    IF c = None THEN <<>>
    ELSE LET u == PrettyUnit(c, 1)
         IN IF c % u.factor # 0
            THEN Format02f(c, u.factor) \o <<" ", u.unit>>
            ELSE FormatD(c \div u.factor) \o <<" ", u.unit>>

\* str.lower() on the characters of the model.
lower(c) ==
    IF c = "M" THEN "m" ELSE IF c = "H" THEN "h" ELSE IF c = "S" THEN "s"
    ELSE c

\* str.strip(): the blanks at both ends go.
RECURSIVE strip(_)
strip(text) ==
    IF text = <<>> THEN text
    ELSE IF Head(text) = " " THEN strip(Tail(text))
    ELSE IF text[Len(text)] = " " THEN strip(SubSeq(text, 1, Len(text) - 1))
    ELSE text

\* str.split(): the runs of characters that are no blanks.
RECURSIVE split(_)
split(text) ==
    IF text = <<>> THEN <<>>
    ELSE IF Head(text) = " " THEN split(Tail(text))
    ELSE LET blanks == {i \in 1..Len(text) : text[i] = " "}
             end == IF blanks = {} THEN Len(text) + 1
                    ELSE CHOOSE i \in blanks : \A j \in blanks : i <= j
         IN <<SubSeq(text, 1, end - 1)>>
                \o split(SubSeq(text, end, Len(text)))

\* What a call that raises returns: no number.
NoValue == [num |-> 0, den |-> 0]

\* float(text) accepts, of the characters of the model, digits with at
\* most one point and one digit at least.
IsFloat(text) ==
    /\ \A i \in 1..Len(text) : isdigit(text[i]) \/ text[i] = "."
    /\ Cardinality({i \in 1..Len(text) : text[i] = "."}) <= 1
    /\ \E i \in 1..Len(text) : isdigit(text[i])

RECURSIVE Pow10(_)
Pow10(n) == IF n = 0 THEN 1 ELSE 10 * Pow10(n - 1)

RECURSIVE DigitsValue(_)
DigitsValue(text) ==
    IF text = <<>> THEN 0
    ELSE 10 * DigitsValue(SubSeq(text, 1, Len(text) - 1))
             + DigitValue(text[Len(text)])

\* float(text) for a text IsFloat accepts.
float(text) ==
    LET points == {i \in 1..Len(text) : text[i] = "."}
        point == IF points = {} THEN Len(text) + 1
                 ELSE CHOOSE i \in points : TRUE
    IN [num |-> DigitsValue(SubSeq(text, 1, point - 1)
                                \o SubSeq(text, point + 1, Len(text))),
        den |-> Pow10(IF points = {} THEN 0 ELSE Len(text) - point)]

\* The loop of parse_time: it breaks at the unit that is user_unit, and is
\* left with the last one when none is.
RECURSIVE ParseFactor(_, _)
ParseFactor(user_unit, i) ==
    IF <<TimeUnits[i].unit>> = user_unit \/ i = Len(TimeUnits)
    THEN TimeUnits[i].factor
    ELSE ParseFactor(user_unit, i + 1)

\* A variant of parse_time_of whose loop never breaks: the factor is the
\* last one.
parse_time_of_lastFactor(user_time, user_unit) ==
    LET time == [i \in 1..Len(user_time) |->
                    IF user_time[i] = "," THEN "." ELSE user_time[i]]
        factor == TimeUnits[Len(TimeUnits)].factor
    IN IF ~IsFloat(time) THEN [raised |-> "ValueError", value |-> NoValue]
       ELSE [raised |-> "",
             value |-> [num |-> float(time).num * factor,
                        den |-> float(time).den]]

\* parse_time past the split in time and unit: float(user_time) * factor.
parse_time_of(user_time, user_unit) ==
    LET time == [i \in 1..Len(user_time) |->
                    IF user_time[i] = "," THEN "." ELSE user_time[i]]
        factor == ParseFactor(user_unit, 1)
    IN IF ~IsFloat(time) THEN [raised |-> "ValueError", value |-> NoValue]
       ELSE [raised |-> "",
             value |-> [num |-> float(time).num * factor,
                        den |-> float(time).den]]

\* parse_time(user_input): what it raises, if it does, and what it returns.
\* The two names of `user_time, user_unit = user_input.split()` take two
\* parts and nothing else.
parse_time(text) ==
    LET input == [i \in 1..Len(strip(text)) |-> lower(strip(text)[i])]
    IN IF input = <<>> THEN [raised |-> "", value |-> [num |-> 0, den |-> 1]]
       ELSE IF \E i \in 1..Len(input) : input[i] = " "
       THEN IF Len(split(input)) # 2
            THEN [raised |-> "ValueError", value |-> NoValue]
            ELSE parse_time_of(split(input)[1], split(input)[2])
       ELSE IF ~isdigit(input[Len(input)])
       THEN parse_time_of(SubSeq(input, 1, Len(input) - 1),
                          <<input[Len(input)]>>)
       ELSE parse_time_of(input, <<>>)

---------------------------------------------------------------------------
\* PlanSummaryTable.

\* Variants of TimeKey: the interruption tested before the activity, and the
\* activity test inverted.
TimeKey_interruptionFirst(interruption, active) ==
    IF Truthy(interruption) THEN "interruption"
    ELSE IF ~active THEN "off_task"
    ELSE "actual"

TimeKey_inverted(interruption, active) ==
    IF active THEN "off_task"
    ELSE IF Truthy(interruption) THEN "interruption"
    ELSE "actual"

\* count: one second more on off_task, interruption or actual of the phase.
TimeKey(interruption, active) ==
    IF ~active THEN "off_task"
    ELSE IF Truthy(interruption) THEN "interruption"
    ELSE "actual"

\* A variant of PlanSummaryTable_count that leaves key_time as it is first
\* set, "plan", when the host is active and nothing interrupts.
PlanSummaryTable_count_plan(s, phase, interruption, active) ==
    IF ~s.times_loaded THEN s
    ELSE LET key_time == IF TimeKey(interruption, active) = "actual"
                         THEN "plan" ELSE TimeKey(interruption, active)
             row == Get(s.times, phase, EmptyDict)
             value == Get(row, key_time, 0) + 1
         IN Shelf_sync(
                [s EXCEPT !.times = Put(@, phase, Put(row, key_time, value))],
                "time_summary")

PlanSummaryTable_count(s, phase, interruption, active) ==
    IF ~s.times_loaded THEN s
    ELSE LET key_time == TimeKey(interruption, active)
             row == Get(s.times, phase, EmptyDict)
             value == Get(row, key_time, 0) + 1
         IN Shelf_sync(
                [s EXCEPT !.times = Put(@, phase, Put(row, key_time, value))],
                "time_summary")

\* comment: returns at once, the statements after the return never run.
PlanSummaryTable_comment(s, phase, message, delta) == s

PSP_TIMES == <<"plan", "actual", "interruption", "off_task", "comments">>

\* SetValue(row, col, value): the operator edits a cell of the grid.  The
\* number parse_time returns is stored; the texts of the model are whole
\* numbers of seconds, for which the float is the int.
SetValue(s, row, col, value) ==
    IF ~s.times_loaded THEN s
    ELSE LET r == parse_time(value)
             key_phase == PSP_PHASES[row + 1]
             key_time == PSP_TIMES[col + 1]
         IN IF r.raised # "" THEN Raise(s, r.raised)
            ELSE Shelf_sync(
                     [s EXCEPT !.times =
                         Put(@, key_phase,
                             Put(Get(@, key_phase, EmptyDict), key_time,
                                 r.value.num \div r.value.den))],
                     "time_summary")

---------------------------------------------------------------------------
\* PSPMixin: the stopwatch.

OnStartPSP(s, event) ==
    psp_log_event([s EXCEPT !.psp_automatic_stopwatch = (event = NoEvent),
                            !.timer = TRUE],
                  "start", "-", "", NoItem)

\* A variant of PSPInterrupt without the test of the automatic flag.
PSPInterrupt_noManualGuard(s, message) ==
    IF s.task_suspended THEN s
    ELSE LET s1 == IF ~s.timer THEN OnStartPSP(s, NoEvent) ELSE s
         IN IF s1.psp_interruption = None
            THEN psp_log_event([s1 EXCEPT !.psp_interruption = 0],
                               "pausing!", "-", message, NoItem)
            ELSE s1

PSPInterrupt(s, message) ==
    IF ~s.psp_automatic_stopwatch \/ s.task_suspended THEN s
    ELSE LET s1 == IF ~s.timer THEN OnStartPSP(s, NoEvent) ELSE s
         IN IF s1.psp_interruption = None
            THEN psp_log_event([s1 EXCEPT !.psp_interruption = 0],
                               "pausing!", "-", message, NoItem)
            ELSE s1

\* A variant of PSPResume that ends the interruption without a line in
\* the log.
PSPResume_silent(s, message) ==
    IF ~s.psp_automatic_stopwatch \/ s.task_suspended THEN s
    ELSE LET s1 == IF ~s.timer THEN OnStartPSP(s, NoEvent) ELSE s
         IN IF s1.psp_interruption # None
            THEN LET s2 == [s1 EXCEPT !.psp_interruption = None]
                     phase == GetPSPPhase(s2)
                 IN IF message # ""
                    THEN PlanSummaryTable_comment(s2, phase, message,
                                                  s2.psp_interruption)
                    ELSE s2
            ELSE s1

PSPResume(s, message) ==
    IF ~s.psp_automatic_stopwatch \/ s.task_suspended THEN s
    ELSE LET s1 == IF ~s.timer THEN OnStartPSP(s, NoEvent) ELSE s
         IN IF s1.psp_interruption # None
            THEN LET s2 == [s1 EXCEPT !.psp_interruption = None]
                     phase == GetPSPPhase(s2)
                     s3 == IF message # ""
                           THEN PlanSummaryTable_comment(s2, phase, message,
                                                         s2.psp_interruption)
                           ELSE s2
                 IN psp_log_event(s3, "resuming", "-", message, NoItem)
            ELSE s1

\* message is what the operator types in the comment dialog.
OnPausePSP(s, event, message) ==
    LET s1 == [s EXCEPT !.psp_automatic_stopwatch = (event = NoEvent)]
    IN IF s1.psp_interruption # None
       THEN PSPResume(s1, message)
       ELSE PSPInterrupt(s1, "")

OnStopPSP(s, event, message) ==
    LET s1 == psp_log_event(
                  [s EXCEPT !.psp_automatic_stopwatch = (event = NoEvent),
                            !.timer = FALSE],
                  "stop", "-", "", NoItem)
    IN IF Truthy(s1.psp_interruption)
       THEN OnPausePSP(s1, event, message)
       ELSE s1

---------------------------------------------------------------------------
\* DefectListCtrl.  A row of the list control is [data, image]: its item
\* data and its check box image (0 unchecked, 1 checked).  Row indices are
\* those of wx, from 0.

ValidRow(s, index) == index >= 0 /\ index < Len(s.rows)

\* The fields AddItem compares to find a duplicate.
SameDefect(defect, item) ==
    /\ defect["summary"] = item["summary"]
    /\ defect["date"] = item["date"]
    /\ defect["filename"] = item["filename"]
    /\ defect["lineno"] = item["lineno"]
    /\ defect["offset"] = item["offset"]

DupKeys(s, item) == {k \in DOMAIN s.defects : SameDefect(s.defects[k], item)}

\* CheckListCtrlMixin.ToggleItem as AddItem uses it, on a row just inserted
\* for a checked item: the image flips to checked and OnCheckItem(index,
\* True) finds item["checked"] equal to the flag and changes nothing.
ToggleNewItem(s, index) ==
    [s EXCEPT !.rows[index + 1].image = 1 - @]

\* The number of a defect is a Python int or the str() of one.  The decimal
\* string of n is kept apart from the int n by the offset StrTag, and int()
\* reads either back.
StrTag == 1000

str(n) == StrTag + n

int(v) == IF v >= StrTag THEN v - StrTag ELSE v

\* [int(defect['number'] or 0) for defect in self.data.values()]
Numbers(data) ==
    {int(IF Truthy(data[k]["number"]) THEN data[k]["number"] ELSE 0) :
        k \in DOMAIN data}

\* A variant of AddItem_insert that numbers a new defect with the maximum
\* itself.
AddItem_insert_noIncrement(s, item, key) ==
    LET item1 == IF "checked" \in DOMAIN item THEN item
                 ELSE Put(item, "checked", FALSE)
        index == Len(s.rows)
        s1 == [s EXCEPT !.rows = Append(@, [data |-> 0, image |-> 0])]
        item2 == IF item1["number"] = None
                 THEN Put(item1, "number",
                          IF DOMAIN s.defects # {}
                          THEN str(SetMax(Numbers(s.defects))) ELSE 1)
                 ELSE item1
        newkey == UUIDS[s.next_uuid + 1]
        item3 == IF key = NoKey THEN Put(item2, "uuid", newkey) ELSE item2
        key1 == IF key = NoKey THEN newkey ELSE key
        s2 == IF key = NoKey
              THEN psp_log_event(
                       Shelf_sync([s1 EXCEPT !.next_uuid = @ + 1,
                                             !.defects = Put(@, newkey, item3)],
                                  "defect"),
                       "new_defect", newkey, "", <<item3>>)
              ELSE s1
        s3 == [s2 EXCEPT !.key_map = Put(@, index, key1),
                         !.rows[index + 1].data = index]
    IN IF item3["checked"] THEN ToggleNewItem(s3, index) ELSE s3

\* AddItem(item, key) past the scan for a duplicate: the row, the number,
\* the key and the store.  The number of a number-less item is the int 1 on
\* an empty store and str(max + 1) otherwise.
AddItem_insert(s, item, key) ==
    LET item1 == IF "checked" \in DOMAIN item THEN item
                 ELSE Put(item, "checked", FALSE)
        index == Len(s.rows)
        s1 == [s EXCEPT !.rows = Append(@, [data |-> 0, image |-> 0])]
        item2 == IF item1["number"] = None
                 THEN Put(item1, "number",
                          IF DOMAIN s.defects # {}
                          THEN str(SetMax(Numbers(s.defects)) + 1) ELSE 1)
                 ELSE item1
        newkey == UUIDS[s.next_uuid + 1]
        item3 == IF key = NoKey THEN Put(item2, "uuid", newkey) ELSE item2
        key1 == IF key = NoKey THEN newkey ELSE key
        s2 == IF key = NoKey
              THEN psp_log_event(
                       Shelf_sync([s1 EXCEPT !.next_uuid = @ + 1,
                                             !.defects = Put(@, newkey, item3)],
                                  "defect"),
                       "new_defect", newkey, "", <<item3>>)
              ELSE s1
        s3 == [s2 EXCEPT !.key_map = Put(@, index, key1),
                         !.rows[index + 1].data = index]
    IN IF item3["checked"] THEN ToggleNewItem(s3, index) ELSE s3

\* The duplicate the scan of data.values() meets first: pick, when there
\* are several.
FirstDup(s, item, pick) ==
    IF pick \in DupKeys(s, item) THEN pick
    ELSE CHOOSE k \in DupKeys(s, item) : TRUE

\* A variant of AddItem whose scan logs the duplicate and goes on.
AddItem_noReturn(s, item, key, pick) ==
    IF ~s.defects_loaded THEN s
    ELSE IF key = NoKey /\ DupKeys(s, item) # {}
    THEN AddItem_insert(
             psp_log_event(s, "dup_defect",
                           s.defects[FirstDup(s, item, pick)]["uuid"], "",
                           <<item>>),
             item, key)
    ELSE AddItem_insert(s, item, key)

\* AddItem(item, key): nothing without a loaded task; a duplicate is
\* logged and not added.  Both ways out are a bare return or the end of the
\* body: returned stays NoKey.
AddItem(s, item, key, pick) ==
    IF ~s.defects_loaded THEN s
    ELSE IF key = NoKey /\ DupKeys(s, item) # {}
    THEN psp_log_event(s, "dup_defect",
                       s.defects[FirstDup(s, item, pick)]["uuid"], "",
                       <<item>>)
    ELSE AddItem_insert(s, item, key)

OnItemSelected(s, index) == [s EXCEPT !.selected_index = index]

OnItemDeselected(s) == [s EXCEPT !.selected_index = None]

OnItemActivated(s, index) ==
    LET pos == s.rows[index + 1].data
    IN IF pos \notin DOMAIN s.key_map THEN Raise(s, "KeyError")
       ELSE LET key == s.key_map[pos]
            IN IF ~s.defects_loaded THEN Raise(s, "TypeError")
               ELSE IF key \notin DOMAIN s.defects THEN Raise(s, "KeyError")
               ELSE psp_log_event([s EXCEPT !.selecteditemindex = index],
                                  "activate_defect", key, "", NoItem)

\* Variants of OnCheckItem_item: the fix time cleared at every check, and
\* the remove phase written at every check.
OnCheckItem_item_clearAlways(item, flag, wontfix, phase) ==
    LET item1 == IF flag THEN [item EXCEPT !["fix_time"] = None] ELSE item
        item2 == IF flag /\ item1["remove_phase"] = ""
                 THEN [item1 EXCEPT !["remove_phase"] = phase]
                 ELSE item1
    IN [item2 EXCEPT !["checked"] = flag]

OnCheckItem_item_phaseAlways(item, flag, wontfix, phase) ==
    LET item1 == IF wontfix THEN [item EXCEPT !["fix_time"] = None] ELSE item
        item2 == IF flag THEN [item1 EXCEPT !["remove_phase"] = phase]
                 ELSE item1
    IN [item2 EXCEPT !["checked"] = flag]

\* What OnCheckItem makes of an item whose checked differs from flag: the
\* fix time is cleared for wontfix, the remove phase is set at a check when
\* it is empty.
OnCheckItem_item(item, flag, wontfix, phase) ==
    LET item1 == IF wontfix THEN [item EXCEPT !["fix_time"] = None] ELSE item
        item2 == IF flag /\ item1["remove_phase"] = ""
                 THEN [item1 EXCEPT !["remove_phase"] = phase]
                 ELSE item1
    IN [item2 EXCEPT !["checked"] = flag]

\* OnCheckItem(index, flag, wontfix): the base class calls it when a check
\* box changes, OnChangeItem for the menu entries.  strict as in
\* OnDeleteItem.
OnCheckItem(s, index, flag, wontfix, strict) ==
    IF index = None THEN Raise(s, "TypeError")
    ELSE LET valid == ValidRow(s, index)
             pos == IF valid THEN s.rows[index + 1].data ELSE 0
         IN IF ~valid /\ strict THEN Raise(s, "wxAssertion")
            ELSE IF pos \notin DOMAIN s.key_map THEN Raise(s, "KeyError")
            ELSE LET key == s.key_map[pos]
                 IN IF ~s.defects_loaded THEN Raise(s, "TypeError")
                    ELSE IF key \notin DOMAIN s.defects
                    THEN Raise(s, "KeyError")
                    ELSE IF s.defects[key]["checked"] = flag THEN s
                    ELSE Shelf_sync(
                             psp_log_event(
                                 [s EXCEPT !.defects[key] =
                                     OnCheckItem_item(@, flag, wontfix,
                                                      GetPSPPhase(s))],
                                 IF flag THEN "checked_defect"
                                 ELSE "unchecked_defect",
                                 key, "", NoItem),
                             "defect")

\* CheckListCtrlMixin.CheckItem and ToggleItem of wx: the image of the row
\* changes when it differs from the wish, and OnCheckItem is told.
CheckItem(s, index, check, strict) ==
    IF ~ValidRow(s, index)
    THEN IF strict THEN Raise(s, "wxAssertion") ELSE s
    ELSE LET img == s.rows[index + 1].image
         IN IF img = 0 /\ check
            THEN OnCheckItem([s EXCEPT !.rows[index + 1].image = 1],
                             index, TRUE, FALSE, strict)
            ELSE IF img = 1 /\ ~check
            THEN OnCheckItem([s EXCEPT !.rows[index + 1].image = 0],
                             index, FALSE, FALSE, strict)
            ELSE s

ToggleItem(s, index, strict) ==
    IF ~ValidRow(s, index)
    THEN IF strict THEN Raise(s, "wxAssertion") ELSE s
    ELSE CheckItem(s, index, s.rows[index + 1].image # 1, strict)

\* OnChangeItem: the menu entries Mark Fixed and Mark Wontfix.
OnChangeItem(s, wontfix, strict) ==
    LET s1 == OnCheckItem(s, s.selected_index, TRUE, wontfix, strict)
    IN IF s1.raised # "" THEN s1
       ELSE ToggleItem(s1, s.selected_index, strict)

RemoveRow(r, index) ==
    [i \in 1..(Len(r) - 1) |-> IF i < index + 1 THEN r[i] ELSE r[i + 1]]

\* A variant of OnDeleteItem that leaves the shelf as it is after the del,
\* without a sync.
OnDeleteItem_noSync(s, strict) ==
    IF s.selected_index = None THEN s
    ELSE LET index == s.selected_index
             valid == ValidRow(s, index)
             pos == IF valid THEN s.rows[index + 1].data ELSE 0
         IN IF ~valid /\ strict THEN Raise(s, "wxAssertion")
            ELSE IF pos \notin DOMAIN s.key_map THEN Raise(s, "KeyError")
            ELSE LET key == s.key_map[pos]
                 IN IF ~s.defects_loaded THEN Raise(s, "TypeError")
                    ELSE IF key \notin DOMAIN s.defects
                    THEN Raise(s, "KeyError")
                    ELSE LET data == [k \in (DOMAIN s.defects) \ {key}
                                         |-> s.defects[k]]
                             n == Cardinality(DOMAIN data)
                             s1 == [s EXCEPT
                                      !.defects = data,
                                      !.rows = IF valid
                                               THEN RemoveRow(@, index)
                                               ELSE @]
                         IN [s1 EXCEPT
                               !.selected_index =
                                   IF n = 0 THEN None
                                   ELSE IF index = n THEN n - 1
                                   ELSE index]

\* OnDeleteItem.  strict: the wx build raises on a row index out of range;
\* otherwise GetItemData answers 0 and DeleteItem does nothing for it.
OnDeleteItem(s, strict) ==
    IF s.selected_index = None THEN s
    ELSE LET index == s.selected_index
             valid == ValidRow(s, index)
             pos == IF valid THEN s.rows[index + 1].data ELSE 0
         IN IF ~valid /\ strict THEN Raise(s, "wxAssertion")
            ELSE IF pos \notin DOMAIN s.key_map THEN Raise(s, "KeyError")
            ELSE LET key == s.key_map[pos]
                 IN IF ~s.defects_loaded THEN Raise(s, "TypeError")
                    ELSE IF key \notin DOMAIN s.defects
                    THEN Raise(s, "KeyError")
                    ELSE LET data == [k \in (DOMAIN s.defects) \ {key}
                                         |-> s.defects[k]]
                             n == Cardinality(DOMAIN data)
                             s1 == Shelf_sync(
                                       [s EXCEPT
                                          !.defects = data,
                                          !.rows = IF valid
                                                   THEN RemoveRow(@, index)
                                                   ELSE @],
                                       "defect")
                         IN [s1 EXCEPT
                               !.selected_index =
                                   IF n = 0 THEN None
                                   ELSE IF index = n THEN n - 1
                                   ELSE index]

DeleteAllItems(s) ==
    [s EXCEPT !.defects_loaded = FALSE, !.selected_index = None,
              !.rows = <<>>]

\* dict.update: the keys of other are written over those of d.
update(d, other) ==
    [k \in (DOMAIN d) \cup (DOMAIN other) |->
        IF k \in DOMAIN other THEN other[k] ELSE d[k]]

\* The last of the sorted keys of PSP_DEFECT_TYPES: the type the dialog
\* answers for an item that has none (no selection, index -1).
LastDefectType == 100

\* DefectDialog.SetValue(item) and then GetValue(): the operator types
\* summary and the text of the fix time; the other fields come back as the
\* dialog was given them.
DefectDialog_GetValue(item, summary, fix_time) ==
    [summary |-> summary,
     description |-> Get(item, "description", ""),
     type |-> Get(item, "type", LastDefectType),
     inject_phase |-> item["inject_phase"],
     remove_phase |-> item["remove_phase"],
     fix_time |-> fix_time,
     fix_defect |-> Get(item, "fix_defect", "")]

\* OnEditItem: the dialog on the selected defect.  ok: the operator closes
\* it with OK.  text is what the fix time field holds then.  strict as in
\* OnDeleteItem.
OnEditItem(s, ok, summary, text, strict) ==
    IF s.selected_index = None THEN Raise(s, "TypeError")
    ELSE LET index == s.selected_index
             valid == ValidRow(s, index)
             pos == IF valid THEN s.rows[index + 1].data ELSE 0
         IN IF ~valid /\ strict THEN Raise(s, "wxAssertion")
            ELSE IF pos \notin DOMAIN s.key_map THEN Raise(s, "KeyError")
            ELSE LET key == s.key_map[pos]
                 IN IF ~s.defects_loaded THEN Raise(s, "TypeError")
                    ELSE IF key \notin DOMAIN s.defects
                    THEN Raise(s, "KeyError")
                    ELSE IF ~ok THEN Shelf_sync(s, "defect")
                    ELSE LET r == parse_time(text)
                         IN IF r.raised # "" THEN Raise(s, r.raised)
                            ELSE Shelf_sync(
                                     [s EXCEPT !.defects[key] =
                                         update(@, DefectDialog_GetValue(
                                                       @, summary,
                                                       r.value.num
                                                         \div r.value.den))],
                                     "defect")

\* count: one second more of fix_time on the activated defect.
DefectListCtrl_count(s, strict) ==
    IF s.selecteditemindex = None THEN s
    ELSE LET index == s.selecteditemindex
             valid == ValidRow(s, index)
             pos == IF valid THEN s.rows[index + 1].data ELSE 0
         IN IF ~valid /\ strict THEN Raise(s, "wxAssertion")
            ELSE IF pos \notin DOMAIN s.key_map THEN Raise(s, "KeyError")
            ELSE LET key == s.key_map[pos]
                 IN IF ~s.defects_loaded THEN Raise(s, "TypeError")
                    ELSE IF key \notin DOMAIN s.defects
                    THEN Raise(s, "KeyError")
                    ELSE IF s.defects[key]["checked"] THEN s
                    ELSE IF s.defects[key]["fix_time"] = None
                    THEN Raise(s, "TypeError")
                    ELSE Shelf_sync(
                             [s EXCEPT !.defects[key]["fix_time"] = @ + 1],
                             "defect")

\* Load: the rows are rebuilt from the shelf, in the order it iterates.
RECURSIVE LoadItems(_, _)
LoadItems(s, order) ==
    IF order = <<>> THEN s
    ELSE LoadItems(AddItem(s, s.defects[Head(order)], Head(order), NoKey),
                   Tail(order))

DefectListCtrl_Load(s, order) ==
    LoadItems([s EXCEPT !.defects_loaded = TRUE], order)

---------------------------------------------------------------------------
\* PSPMixin: the clock tick.

\* A variant of TimerHandler that returns at once when the automatic flag
\* is off.
TimerHandler_ifAutomatic(s, active, strict) ==
    IF ~s.psp_automatic_stopwatch THEN s
    ELSE LET s1 == IF s.psp_interruption # None
                   THEN [s EXCEPT !.psp_interruption = @ + 1]
                   ELSE s
             phase == GetPSPPhase(s1)
         IN IF phase # "" /\ s1.task_id /\ ~s1.task_suspended
            THEN LET s2 == PlanSummaryTable_count(s1, phase,
                                                  s1.psp_interruption, active)
                 IN IF ~s1.times_loaded THEN s2
                    ELSE IF ~Truthy(s2.psp_interruption)
                    THEN DefectListCtrl_count(s2, strict)
                    ELSE s2
            ELSE s1

\* TimerHandler.  active is wx.GetApp().IsActive() or self.executing.
\* tick_task_context() belongs to the task mixin and touches none of this
\* state.
TimerHandler(s, active, strict) ==
    LET s1 == IF s.psp_interruption # None
              THEN [s EXCEPT !.psp_interruption = @ + 1]
              ELSE s
        phase == GetPSPPhase(s1)
    IN IF phase # "" /\ s1.task_id /\ ~s1.task_suspended
       THEN LET s2 == PlanSummaryTable_count(s1, phase, s1.psp_interruption,
                                             active)
            IN IF ~s1.times_loaded THEN s2
               ELSE IF ~Truthy(s2.psp_interruption)
               THEN DefectListCtrl_count(s2, strict)
               ELSE s2
       ELSE s1

---------------------------------------------------------------------------
\* PSPMixin: tasks.  The task mixin these methods extend is not part of
\* psp.py; its part is taken to be the flag its name says: activate selects
\* a task, deactivate unselects it, suspend and resume set and clear
\* task_suspended.

psp_load_project(s, order) ==
    LET s1 == [DeleteAllItems(s) EXCEPT !.times_loaded = FALSE]
    IN IF s1.task_id
       THEN [DefectListCtrl_Load(s1, order) EXCEPT !.times_loaded = TRUE]
       ELSE s1

activate_task(s, order) ==
    LET s1 == [s EXCEPT !.task_id = TRUE]
    IN OnStartPSP(psp_load_project(s1, order), NoEvent)

deactivate_task(s, message) ==
    LET s1 == [s EXCEPT !.task_id = FALSE, !.task_suspended = FALSE]
    IN psp_load_project(OnStopPSP(s1, NoEvent, message), <<>>)

suspend_task(s, message) ==
    LET s1 == [s EXCEPT !.task_suspended = TRUE]
    IN [OnStopPSP(s1, NoEvent, message)
          EXCEPT !.psp_automatic_stopwatch = FALSE]

resume_task(s) ==
    OnStartPSP([s EXCEPT !.task_suspended = FALSE], NoEvent)

---------------------------------------------------------------------------
\* PSPMixin: the metadata of the lines of a file.  A metadata is a
\* dictionary from line index (from 0) to [phase, line].

NoFile == ""

\* diffutil.track_lines_changes(old, new), which is not part of psp.py: a
\* set of pairs <<old_lno, new_lno>>, None for a line that has no partner,
\* where every new line and every old line is listed once and the pairs
\* with both do not cross.
Alignments(old, new) ==
    LET N == 0..(Len(new) - 1)
        O == 0..(Len(old) - 1)
        Matches == {m \in [N -> O \cup {None}] :
                       \A i, j \in N :
                           (i < j /\ m[i] # None /\ m[j] # None)
                               => m[i] < m[j]}
    IN {{<<m[n], n>> : n \in N}
           \cup {<<o, None>> : o \in {x \in O : \A n \in N : m[n] # x}} :
        m \in Matches}

\* The k-th key of a dictionary of integers, k from 1, in rising order.
NthKey(d, k) ==
    CHOOSE x \in DOMAIN d : Cardinality({y \in DOMAIN d : y < x}) = k - 1

\* old = [l for (phase, l) in old_metadata.values()]
OldLines(old_metadata) ==
    [k \in 1..Cardinality(DOMAIN old_metadata) |->
        old_metadata[NthKey(old_metadata, k)].line]

\* The lines track_lines_changes is given for filename in state s.
OldOf(s, filename) ==
    IF filename \in DOMAIN s.metadata_files
    THEN OldLines(s.metadata_files[filename]) ELSE <<>>

NewOf(s, filename) ==
    IF filename \in DOMAIN s.files THEN s.files[filename].lines ELSE <<>>

\* Variants of new_metadata: one that files a line that has a partner
\* under the index of the old line, and one that gives every line of the
\* new text the current phase.
new_metadata_oldIndex(old_metadata, new, changes, phase) ==
    [n \in {IF c[1] = None THEN c[2] ELSE c[1] :
               c \in {x \in changes : x[2] # None}} |->
        LET c == CHOOSE x \in changes :
                     x[2] # None /\ (IF x[1] = None THEN x[2] ELSE x[1]) = n
        IN IF c[1] = None THEN [phase |-> phase, line |-> new[c[2] + 1]]
           ELSE [phase |-> old_metadata[c[1]].phase,
                 line |-> new[c[2] + 1]]]

new_metadata_allCurrent(old_metadata, new, changes, phase) ==
    [n \in {c[2] : c \in {x \in changes : x[2] # None}} |->
        [phase |-> phase, line |-> new[n + 1]]]

\* The loop over changes: a new or replaced line gets the current phase,
\* an equal line keeps the phase of the old line, a deleted line is left
\* out.
new_metadata(old_metadata, new, changes, phase) ==
    [n \in {c[2] : c \in {x \in changes : x[2] # None}} |->
        LET c == CHOOSE x \in changes : x[2] = n
        IN IF c[1] = None THEN [phase |-> phase, line |-> new[n + 1]]
           ELSE [phase |-> old_metadata[c[1]].phase, line |-> new[n + 1]]]

\* A variant of update_metadata that rebuilds at every call.
update_metadata_noCache(s, filename, changes) ==
    IF filename \notin DOMAIN s.files THEN Raise(s, "OSError")
    ELSE LET timestamp == s.files[filename].mtime
             new == s.files[filename].lines
             metadata ==
                 IF filename \notin DOMAIN s.metadata_files
                 THEN [i \in 0..(Len(new) - 1) |->
                          [phase |-> s.current_psp_phase,
                           line |-> new[i + 1]]]
                 ELSE new_metadata(s.metadata_files[filename], new,
                                   changes, s.current_psp_phase)
         IN [s EXCEPT !.metadata_files = Put(@, filename, metadata),
                      !.psp_metadata_cache =
                          Put(@, filename, [timestamp |-> timestamp,
                                            metadata |-> metadata]),
                      !.returned = metadata]

\* update_metadata(filename): the cached metadata when the file has the
\* time stamp of the cache, else the metadata rebuilt, pickled and cached.
\* changes is what track_lines_changes answers.
update_metadata(s, filename, changes) ==
    IF filename \notin DOMAIN s.files THEN Raise(s, "OSError")
    ELSE LET timestamp == s.files[filename].mtime
             fresh == /\ filename \in DOMAIN s.psp_metadata_cache
                      /\ s.psp_metadata_cache[filename].timestamp = timestamp
             new == s.files[filename].lines
             metadata ==
                 IF filename \notin DOMAIN s.metadata_files
                 THEN [i \in 0..(Len(new) - 1) |->
                          [phase |-> s.current_psp_phase,
                           line |-> new[i + 1]]]
                 ELSE new_metadata(s.metadata_files[filename], new,
                                   changes, s.current_psp_phase)
         IN IF fresh
            THEN [s EXCEPT !.returned =
                               s.psp_metadata_cache[filename].metadata]
            ELSE [s EXCEPT !.metadata_files = Put(@, filename, metadata),
                           !.psp_metadata_cache =
                               Put(@, filename, [timestamp |-> timestamp,
                                                 metadata |-> metadata]),
                           !.returned = metadata]

\* UpdateMetadataPSP: the metadata of the file of the active editor, if
\* any; what update_metadata returns is dropped.
UpdateMetadataPSP(s, child, changes) ==
    IF child # NoFile
    THEN [update_metadata(s, child, changes) EXCEPT !.returned = NoKey]
    ELSE s

\* A variant of set_current_psp_phase that sets the new phase first and
\* brings the metadata up to date after that.
set_current_psp_phase_phaseFirst(s, phase, child, changes) ==
    LET s1 == IF s.current_psp_phase # ""
              THEN UpdateMetadataPSP([s EXCEPT !.current_psp_phase = phase],
                                     child, changes)
              ELSE s
    IN IF s1.raised # "" THEN [s1 EXCEPT !.current_psp_phase = s.current_psp_phase]
       ELSE [s1 EXCEPT !.current_psp_phase = phase]

\* set_current_psp_phase: the metadata is brought up to date under the
\* phase that ends.
set_current_psp_phase(s, phase, child, changes) ==
    LET s1 == IF s.current_psp_phase # ""
              THEN UpdateMetadataPSP(s, child, changes) ELSE s
    IN IF s1.raised # "" THEN s1
       ELSE [s1 EXCEPT !.current_psp_phase = phase]

\* SetPSPPhase, and OnPSPPhaseChoice after the operator's choice: the
\* choice box shows the phase, then the current phase is set.  child is
\* the file of the active editor, NoFile when there is none.  The phase
\* the configuration holds at start is a name or nothing: None is kept as
\* the empty name.
SetPSPPhase(s, phase, child, changes) ==
    set_current_psp_phase([s EXCEPT !.psp_phase_choice = phase], phase,
                          child, changes)

---------------------------------------------------------------------------
\* What keeps the model finite: the seconds counted and the lines logged.

RowSeconds(row) == SetSum(row, DOMAIN row)

TableSeconds(s) ==
    SetSum([p \in DOMAIN s.times |-> RowSeconds(s.times[p])], DOMAIN s.times)

InBounds(s) ==
    /\ Len(s.log) <= MaxLog
    /\ TableSeconds(s) <= MaxTicks
    /\ s.psp_interruption <= MaxTicks
    /\ s.next_uuid <= MaxDefects
    /\ \A path \in DOMAIN s.files :
          /\ Len(s.files[path].lines) <= MaxLines
          /\ s.files[path].mtime <= MaxWrites

Step(s, op) == InBounds(s) /\ Becomes(s, op)

\* The item NotifyDefect makes of a defect a checker reports in a source
\* that is no file (its name starts with "<"): no metadata is looked up and
\* the inject phase is empty.
NewItem(summary, lineno) ==
    [number |-> None, summary |-> summary, date |-> "today",
     inject_phase |-> "", remove_phase |-> "", fix_time |-> 0,
     filename |-> "<stdin>", lineno |-> lineno, offset |-> 0]

\* The orders in which a shelf of the keys K may iterate.
Orders(K) ==
    {o \in [1..Cardinality(K) -> K] : \A i, j \in DOMAIN o : o[i] = o[j] => i = j}

\* The names of sources that are no files: filename.startswith("<").
AngleNames == {"<stdin>"}

\* A variant of NotifyDefect that takes the phase of the choice box for the
\* inject phase of a line of a file.
NotifyDefect_currentPhase(s, summary, filename, lineno, changes, pick) ==
    IF filename # NoFile /\ lineno # 0 /\ filename \notin AngleNames
    THEN LET s1 == update_metadata(s, filename, changes)
         IN IF s1.raised # "" THEN s1
            ELSE LET metadata == s1.returned
                     s2 == [s1 EXCEPT !.returned = NoKey]
                 IN IF (lineno - 1) \notin DOMAIN metadata
                    THEN Raise(s2, "KeyError")
                    ELSE AddItem(s2,
                                 [NewItem(summary, lineno) EXCEPT
                                     !["inject_phase"] = GetPSPPhase(s2),
                                     !["filename"] = filename],
                                 NoKey, pick)
    ELSE AddItem(s, [NewItem(summary, lineno) EXCEPT
                         !["filename"] = filename],
                 NoKey, pick)

\* A variant of NotifyDefect that gives a line the metadata does not hold
\* the phase of the choice box.
NotifyDefect_defaultPhase(s, summary, filename, lineno, changes, pick) ==
    IF filename # NoFile /\ lineno # 0 /\ filename \notin AngleNames
    THEN LET s1 == update_metadata(s, filename, changes)
         IN IF s1.raised # "" THEN s1
            ELSE LET metadata == s1.returned
                     s2 == [s1 EXCEPT !.returned = NoKey]
                 IN AddItem(s2,
                            [NewItem(summary, lineno) EXCEPT
                                !["inject_phase"] =
                                    IF (lineno - 1) \in DOMAIN metadata
                                    THEN metadata[lineno - 1].phase
                                    ELSE GetPSPPhase(s2),
                                !["filename"] = filename],
                            NoKey, pick)
    ELSE AddItem(s, [NewItem(summary, lineno) EXCEPT
                         !["filename"] = filename],
                 NoKey, pick)

\* NotifyDefect(summary, filename, lineno): a checker reports a defect.
\* With a file and a line, the inject phase is that of the metadata of the
\* line; nothing catches what update_metadata or metadata[lineno-1]
\* raises.
NotifyDefect(s, summary, filename, lineno, changes, pick) ==
    IF filename # NoFile /\ lineno # 0 /\ filename \notin AngleNames
    THEN LET s1 == update_metadata(s, filename, changes)
         IN IF s1.raised # "" THEN s1
            ELSE LET metadata == s1.returned
                     s2 == [s1 EXCEPT !.returned = NoKey]
                 IN IF (lineno - 1) \notin DOMAIN metadata
                    THEN Raise(s2, "KeyError")
                    ELSE AddItem(s2,
                                 [NewItem(summary, lineno) EXCEPT
                                     !["inject_phase"] =
                                         metadata[lineno - 1].phase,
                                     !["filename"] = filename],
                                 NoKey, pick)
    ELSE AddItem(s, [NewItem(summary, lineno) EXCEPT
                         !["filename"] = filename],
                 NoKey, pick)

---------------------------------------------------------------------------
\* PSPMixin: the completion check of a phase.

ID_CHECK == "ID_CHECK"
ID_COMPILE == "ID_COMPILE"
ID_TEST == "ID_TEST"

\* PSP_PHASES.index(phase); 0 stands for the ValueError of a name that is
\* not in the list.
PhaseIndex(phase) ==
    IF phase \in Phases
    THEN CHOOSE i \in 1..Len(PSP_PHASES) : PSP_PHASES[i] = phase
    ELSE 0

\* The phase after the i-th: the next of the list, the empty name after
\* the last.
PhaseAfter(i) == IF i < Len(PSP_PHASES) THEN PSP_PHASES[i + 1] ELSE ""

\* The end of OnCheckPSP when nothing was found: the stopwatch is stopped
\* and the phase after `phase` is set.
CheckCompleted(s, phase, child, changes) ==
    IF PhaseIndex(phase) = 0 THEN Raise(s, "ValueError")
    ELSE SetPSPPhase(OnStopPSP(s, MenuEvent, ""),
                     PhaseAfter(PhaseIndex(phase)), child, changes)

\* OnCheckPSP(event).  evt_id is the id of the event; child the file of
\* the active editor, NoFile when there is none; found: the checker or the
\* tester reports a defect, at line 1 of the file; order is the order in
\* which the time-summary shelf iterates.  The loop of the planning check
\* binds the name phase to the keys of the shelf, so after it phase is the
\* last key.
OnCheckPSP(s, evt_id, child, changes, found, pick, order) ==
    LET s1 == IF evt_id = ID_COMPILE
              THEN SetPSPPhase(s, "compile", child, changes)
              ELSE IF evt_id = ID_TEST
              THEN SetPSPPhase(s, "test", child, changes)
              ELSE s
        phase == GetPSPPhase(s1)
    IN IF s1.raised # "" THEN s1
       ELSE IF child = NoFile THEN s1
       ELSE IF phase = "planning"
       THEN IF ~s1.times_loaded THEN Raise(s1, "AttributeError")
            ELSE IF \E k \in DOMAIN s1.times : "plan" \notin DOMAIN s1.times[k]
            THEN Raise(s1, "KeyError")
            ELSE IF \E k \in DOMAIN s1.times : s1.times[k]["plan"] = 0
            THEN s1
            ELSE CheckCompleted(s1,
                                IF order = <<>> THEN phase
                                ELSE order[Len(order)],
                                child, changes)
       ELSE IF phase = "compile" \/ phase = "test"
       THEN IF found THEN NotifyDefect(s1, "s1", child, 1, changes, pick)
            ELSE CheckCompleted(s1, phase, child, changes)
       ELSE IF phase = "postmortem"
       THEN IF ~s1.defects_loaded THEN Raise(s1, "AttributeError")
            ELSE IF \E k \in DOMAIN s1.defects :
                       s1.defects[k]["remove_phase"] = ""
            THEN s1
            ELSE CheckCompleted(s1, phase, child, changes)
       ELSE CheckCompleted(s1, phase, child, changes)

---------------------------------------------------------------------------
\* The actions: one per handler, its inputs drawn from the sets above.

\* The program after construction, but for the time count and the text
\* the time functions are given.
InitProgram ==
    /\ timer = FALSE
    /\ psp_interruption = None
    /\ psp_automatic_stopwatch = TRUE
    /\ psp_phase_choice \in PhaseChoices
    /\ task_id = FALSE
    /\ task_suspended = FALSE
    /\ times = EmptyDict
    /\ times_loaded = FALSE
    /\ log = <<>>
    /\ defects = EmptyDict
    /\ defects_loaded = FALSE
    /\ rows = <<>>
    /\ key_map = EmptyDict
    /\ selected_index = None
    /\ selecteditemindex = None
    /\ next_uuid = 0
    /\ current_psp_phase = psp_phase_choice
    /\ files = [path \in Paths |-> [lines |-> <<"x", "y">>, mtime |-> 0]]
    /\ psp_metadata_cache = EmptyDict
    /\ metadata_files = EmptyDict
    /\ synced = [defect |-> EmptyDict, time_summary |-> EmptyDict]
    /\ lastOp = [op |-> "init", raised |-> "", returned |-> NoKey]

Init ==
    /\ InitProgram
    /\ counter = None
    /\ user_input = <<>>

StartOf(event) ==
    Step(OnStartPSP(St, event), [op |-> "OnStartPSP", event |-> event])

Start == \E event \in Events : StartOf(event)

\* message is what is typed in the comment dialog.
PauseOf(event, message) ==
    Step(OnPausePSP(St, event, message),
         [op |-> "OnPausePSP", event |-> event])

Pause == \E event \in Events, message \in Messages : PauseOf(event, message)

StopOf(event, message) ==
    Step(OnStopPSP(St, event, message), [op |-> "OnStopPSP", event |-> event])

Stop == \E event \in Events, message \in Messages : StopOf(event, message)

InterruptOf(message) ==
    Step(PSPInterrupt(St, message), [op |-> "PSPInterrupt"])

Interrupt == \E message \in Messages : InterruptOf(message)

ResumeOf(message) ==
    Step(PSPResume(St, message), [op |-> "PSPResume"])

Resume == \E message \in Messages : ResumeOf(message)

\* The timer delivers a tick only while it runs.
TickOf(active) ==
    /\ timer
    /\ \E strict \in BOOLEAN :
           Step(TimerHandler(St, active, strict),
                [op |-> "TimerHandler", active |-> active])

Tick == \E active \in BOOLEAN : TickOf(active)

\* The phase is chosen while no editor is open.
ChoosePhase ==
    \E phase \in PhaseChoices :
        Step(SetPSPPhase(St, phase, NoFile, {}), [op |-> "SetPSPPhase"])

ActivateTask ==
    /\ ~task_id
    /\ \E order \in Orders(DOMAIN defects) :
           Step(activate_task(St, order), [op |-> "activate_task"])

DeactivateTask ==
    /\ task_id
    /\ \E message \in Messages :
           Step(deactivate_task(St, message), [op |-> "deactivate_task"])

SuspendTask ==
    /\ task_id /\ ~task_suspended
    /\ \E message \in Messages :
           Step(suspend_task(St, message), [op |-> "suspend_task"])

ResumeTask ==
    /\ task_id /\ task_suspended
    /\ Step(resume_task(St), [op |-> "resume_task"])

AddOf(item) ==
    \E pick \in (DOMAIN defects) \cup {NoKey} :
        /\ pick \in DupKeys(St, item) \/ DupKeys(St, item) = {}
        /\ Step(AddItem(St, item, NoKey, pick), [op |-> "AddItem"])

Add == \E summary \in Summaries, lineno \in Linenos :
           AddOf(NewItem(summary, lineno))

SelectItem ==
    \E index \in 0..(Len(rows) - 1) :
        Step(OnItemSelected(St, index), [op |-> "OnItemSelected"])

DeselectItem ==
    /\ selected_index # None
    /\ Step(OnItemDeselected(St), [op |-> "OnItemDeselected"])

ActivateItem ==
    \E index \in 0..(Len(rows) - 1) :
        Step(OnItemActivated(St, index), [op |-> "OnItemActivated"])

DeleteItem ==
    \E strict \in BOOLEAN :
        Step(OnDeleteItem(St, strict), [op |-> "OnDeleteItem"])

\* The defects reported at one line of the file.
AddAtLine == \E summary \in Summaries : AddOf(NewItem(summary, 1))

\* A click on the check box of a row.
ClickItemOf(index) ==
    \E strict \in BOOLEAN :
        Step(ToggleItem(St, index, strict),
             [op |-> "ToggleItem", index |-> index])

ClickItem == \E index \in 0..(Len(rows) - 1) : ClickItemOf(index)

ChangeItemOf(wontfix) ==
    /\ selected_index # None
    /\ \E strict \in BOOLEAN :
           Step(OnChangeItem(St, wontfix, strict),
                [op |-> "OnChangeItem", wontfix |-> wontfix,
                 index |-> selected_index])

ChangeItem == \E wontfix \in BOOLEAN : ChangeItemOf(wontfix)

\* The texts a file may hold: text.split(newlines) has one line at least.
Contents == UNION {[1..n -> Texts] : n \in 1..MaxLines}

\* The environment writes a file: the editor saves it, or another program
\* does.  The modification time advances or, within the resolution of the
\* file system's clock, stays.
WriteFile ==
    \E path \in Paths, lines \in Contents, later \in BOOLEAN :
        LET mtime == IF path \in DOMAIN files
                     THEN files[path].mtime + (IF later THEN 1 ELSE 0)
                     ELSE 0
        IN Step([St EXCEPT !.files = Put(@, path, [lines |-> lines,
                                                   mtime |-> mtime])],
                [op |-> "write", filename |-> path])

\* The environment removes a file.
RemoveFile ==
    \E path \in DOMAIN files :
        Step([St EXCEPT !.files = [q \in (DOMAIN files) \ {path} |->
                                      files[q]]],
             [op |-> "remove", filename |-> path])

\* OnMetadataPSP, with filename open in the active editor.
LookupOf(filename) ==
    \E changes \in Alignments(OldOf(St, filename), NewOf(St, filename)) :
        Step(update_metadata(St, filename, changes),
             [op |-> "update_metadata", filename |-> filename])

Lookup == \E filename \in Paths : LookupOf(filename)

\* The phase is chosen while filename is open in the active editor.
ChoosePhaseEditing ==
    \E phase \in PhaseChoices, filename \in Paths :
        \E changes \in Alignments(OldOf(St, filename), NewOf(St, filename)) :
            Step(SetPSPPhase(St, phase, filename, changes),
                 [op |-> "SetPSPPhase", filename |-> filename])

\* A checker reports a defect at a line of a file, of a source that is no
\* file, or nowhere.
NotifyOf(filename, lineno) ==
    \E changes \in Alignments(OldOf(St, filename), NewOf(St, filename)),
       pick \in (DOMAIN defects) \cup {NoKey} :
        LET item == [NewItem("s1", lineno) EXCEPT !["filename"] = filename]
        IN /\ pick \in DupKeys(St, item) \/ DupKeys(St, item) = {}
           /\ Step(NotifyDefect(St, "s1", filename, lineno, changes, pick),
                   [op |-> "NotifyDefect", filename |-> filename,
                    lineno |-> lineno])

Notify ==
    \E filename \in Paths \cup AngleNames \cup {NoFile},
       lineno \in {0, 1, MaxLines} :
        NotifyOf(filename, lineno)

\* The places of the reports of a checker: the lines of a file, a file as
\* a whole (line 0), a source that is no file, and nowhere.
Reports ==
    {<<path, lineno>> : path \in Paths, lineno \in {0, 1, 2}}
        \cup {<<name, 1>> : name \in AngleNames \cup {NoFile}}

\* A checker reports a defect that is not stored yet.
NotifyNew ==
    \E report \in Reports :
        /\ DupKeys(St, [NewItem("s1", report[2]) EXCEPT
                            !["filename"] = report[1]]) = {}
        /\ NotifyOf(report[1], report[2])

\* The characters of the texts typed, and the texts.
Chars == {"0", "1", "5", "9", ".", ",", " ", "s", "m", "h", "M", "x"}

Inputs == UNION {[1..n -> Chars] : n \in 0..MaxChars}

\* The program with a time count to render or a text to parse.
InitTime ==
    /\ InitProgram
    /\ psp_phase_choice = ""
    /\ \/ counter \in {None} \cup (0..MaxSeconds) /\ user_input = <<>>
       \/ counter = None /\ user_input \in Inputs

\* The count is rendered into the text, as DefectDialog.SetValue and
\* PlanSummaryTable.GetValue render it.
PrettyTime ==
    Step([St EXCEPT !.user_input = pretty_time(counter)],
         [op |-> "pretty_time"])

\* The text is parsed, as DefectDialog.GetValue and
\* PlanSummaryTable.SetValue parse it.
ParseTime ==
    LET r == parse_time(user_input)
    IN Step([St EXCEPT !.raised = r.raised],
            [op |-> "parse_time", value |-> r.value])

\* The texts typed in a cell of the plan summary grid.
CellTexts == {<<"0">>, <<"1", "s">>, <<"2", " ", "s">>, <<"x">>}

\* The operator edits the plan or the actual time of a phase.
SetValueOf(row, col) ==
    \E value \in CellTexts :
        Step(SetValue(St, row, col, value),
             [op |-> "SetValue", row |-> row, col |-> col])

EditCell ==
    \E row \in {i \in 0..(Len(PSP_PHASES) - 1) :
                    PSP_PHASES[i + 1] \in PhaseChoices},
       col \in {0, 1} :
        SetValueOf(row, col)

\* The operator asks for the completion check of the phase, or compiles or
\* tests, with filename open in the active editor or with no editor.
CheckPSPOf(evt_id, filename) ==
    \E changes \in Alignments(OldOf(St, filename), NewOf(St, filename)),
       found \in BOOLEAN, pick \in (DOMAIN defects) \cup {NoKey},
       order \in Orders(DOMAIN times) :
        LET item == [NewItem("s1", 1) EXCEPT !["filename"] = filename]
        IN /\ pick \in DupKeys(St, item) \/ DupKeys(St, item) = {}
           /\ Step(OnCheckPSP(St, evt_id, filename, changes, found, pick,
                              order),
                   [op |-> "OnCheckPSP", evt_id |-> evt_id,
                    filename |-> filename, found |-> found])

CheckPSP ==
    \E evt_id \in {ID_CHECK, ID_COMPILE, ID_TEST},
       filename \in Paths \cup {NoFile} :
        CheckPSPOf(evt_id, filename)

\* OnPSPPhaseChoice: the operator chooses any phase, or none, while no
\* editor is open.
ChooseAnyPhase ==
    \E phase \in Phases \cup {""} :
        Step(SetPSPPhase(St, phase, NoFile, {}),
             [op |-> "SetPSPPhase", phase |-> phase])

\* The operator confirms the "Delete all defects?" dialog.
DeleteAll == Step(DeleteAllItems(St), [op |-> "DeleteAllItems"])

\* The texts the operator leaves in the fix time field of the dialog.
FixTimeTexts == {<<"2", " ", "s">>, <<"x">>}

\* The operator edits the selected defect.
EditItemOf(summary) ==
    /\ selected_index # None
    /\ \E ok \in BOOLEAN, text \in FixTimeTexts, strict \in BOOLEAN :
           Step(OnEditItem(St, ok, summary, text, strict),
                [op |-> "OnEditItem", ok |-> ok])

EditItem == \E summary \in Summaries : EditItemOf(summary)

---------------------------------------------------------------------------
\* The stopwatch with a fixed phase: every way to start, pause, resume and
\* stop it, the ticks, and the tasks.

Next ==
    \/ Start
    \/ Pause
    \/ Stop
    \/ Interrupt
    \/ Resume
    \/ Tick
    \/ ActivateTask
    \/ DeactivateTask
    \/ SuspendTask
    \/ ResumeTask

Spec == Init /\ [][Next]_vars

\* The time table over several phases: the phase changes between ticks.

NextPhases ==
    \/ ActivateTask
    \/ ChoosePhase
    \/ Interrupt
    \/ Tick

SpecPhases == Init /\ [][NextPhases]_vars

\* The defect recording log of a task.

NextDefects ==
    \/ ActivateTask
    \/ DeactivateTask
    \/ Add
    \/ SelectItem
    \/ DeselectItem
    \/ ActivateItem
    \/ DeleteItem
    \/ DeleteAll

SpecDefects == Init /\ [][NextDefects]_vars

\* The check boxes of the defects, over several phases.

NextChecks ==
    \/ ActivateTask
    \/ ChoosePhase
    \/ AddAtLine
    \/ SelectItem
    \/ ClickItem
    \/ ChangeItem

SpecChecks == Init /\ [][NextChecks]_vars

\* The metadata of the lines of a file, while the file is written and the
\* phase changes.

NextProvenance ==
    \/ WriteFile
    \/ Lookup
    \/ ChoosePhaseEditing

SpecProvenance == Init /\ [][NextProvenance]_vars

\* Defects reported by a checker, before and after the file is removed.

NextNotify ==
    \/ ActivateTask
    \/ RemoveFile
    \/ Notify

SpecNotify == Init /\ [][NextNotify]_vars

\* The stopwatch over several phases: it is started, interrupted, resumed
\* and stopped by the program, and the operator changes the phase in
\* between.

NextLog ==
    \/ ChoosePhase
    \/ StartOf(NoEvent)
    \/ InterruptOf("")
    \/ ResumeOf("")
    \/ StopOf(NoEvent, "")
    \/ Tick

SpecLog == Init /\ [][NextLog]_vars

\* The plan summary grid edited while the stopwatch runs.

NextPlan ==
    \/ ActivateTask
    \/ Interrupt
    \/ Tick
    \/ EditCell

SpecPlan == Init /\ [][NextPlan]_vars

\* The time counts rendered and the texts parsed.

NextTime ==
    \/ PrettyTime
    \/ ParseTime

SpecTime == InitTime /\ [][NextTime]_vars

\* Defects reported by a checker after the phase changed: the metadata of
\* the file is older than the choice of the phase.

NextInject ==
    \/ ActivateTask
    \/ ChoosePhase
    \/ NotifyNew

SpecInject == Init /\ [][NextInject]_vars

\* The defect under repair: a defect is activated, checked and unchecked,
\* and deleted while the stopwatch ticks.

NextRepair ==
    \/ ActivateTask
    \/ AddAtLine
    \/ SelectItem
    \/ ActivateItem
    \/ ClickItem
    \/ ChangeItem
    \/ DeleteItem
    \/ Interrupt
    \/ Tick

SpecRepair == Init /\ [][NextRepair]_vars

---------------------------------------------------------------------------
\* Readings of the state the properties use.

\* The seconds of key k of phase p in the time table t (0 when absent).
Tm(t, p, k) == Get(Get(t, p, EmptyDict), k, 0)

\* The comments recorded for phase p in the time table t.
Comments(t, p) == Get(Get(t, p, EmptyDict), "comments", <<>>)

DurationKeys == {"actual", "interruption", "off_task"}

Counting == psp_phase_choice # "" /\ task_id /\ ~task_suspended

LastLine(l) == l[Len(l)]

Line(event, uuid, comment) ==
    [event |-> event, uuid |-> uuid, phase |-> psp_phase_choice,
     comment |-> comment, item |-> NoItem]

---------------------------------------------------------------------------
\* The stopwatch.

\* C1, as stated: a tick while interrupted (phase and task selected, task
\* not suspended) adds 1 to the interruption total of the phase and leaves
\* its actual and off_task totals, whatever the activity probe reports.
C1_InterruptedTickAnyProbe ==
    [][(Tick /\ psp_interruption # None /\ Counting) =>
          /\ Tm(times', psp_phase_choice, "interruption")
                 = Tm(times, psp_phase_choice, "interruption") + 1
          /\ Tm(times', psp_phase_choice, "actual")
                 = Tm(times, psp_phase_choice, "actual")
          /\ Tm(times', psp_phase_choice, "off_task")
                 = Tm(times, psp_phase_choice, "off_task")]_vars

\* C1, amended: a tick while interrupted (phase and task selected, task not
\* suspended) advances the interruption accumulator by 1; when the probe
\* reports the host active it adds 1 to the interruption total of the phase
\* and leaves actual and off_task, and when the probe reports the host
\* inactive it adds 1 to off_task and leaves interruption and actual.  So N
\* consecutive active ticks add N to the interruption total.
C1_InterruptedTick ==
    [][\A active \in BOOLEAN :
          (TickOf(active) /\ psp_interruption # None /\ Counting) =>
             /\ psp_interruption' = psp_interruption + 1
             /\ \A k \in DurationKeys :
                   Tm(times', psp_phase_choice, k)
                       = Tm(times, psp_phase_choice, k)
                         + (IF k = (IF active THEN "interruption"
                                    ELSE "off_task")
                            THEN 1 ELSE 0)]_vars

\* Two ticks in a row counted on the interruption total of the phase.
C1_Witness ==
    /\ lastOp.op = "TimerHandler" /\ lastOp.active
    /\ Counting /\ timer
    /\ psp_interruption = 2
    /\ Tm(times, psp_phase_choice, "interruption") = 2

\* C2: a tick while running and not interrupted (phase and task selected,
\* task not suspended) adds 1 to off_task of the phase when the probe
\* reports the host inactive and 1 to actual otherwise; no other time of
\* this phase and no time of another phase changes.
C2_RunningTick ==
    [][\A active \in BOOLEAN :
          (TickOf(active) /\ psp_interruption = None /\ Counting) =>
             /\ \A p \in Phases, k \in {"plan"} \cup DurationKeys :
                   Tm(times', p, k)
                       = Tm(times, p, k)
                         + (IF p = psp_phase_choice
                               /\ k = (IF active THEN "actual"
                                       ELSE "off_task")
                            THEN 1 ELSE 0)
             /\ \A p \in Phases : Comments(times', p) = Comments(times, p)
             /\ DOMAIN times' \subseteq Phases]_vars

\* An inactive tick counted on off_task while another phase holds time.
C2_Witness ==
    /\ lastOp.op = "TimerHandler" /\ ~lastOp.active
    /\ Counting /\ timer /\ psp_interruption = None
    /\ Tm(times, psp_phase_choice, "off_task") = 1
    /\ \E p \in Phases \ {psp_phase_choice} : Tm(times, p, "actual") = 1

\* C3: when stop() has returned, from any state and whoever asked, the
\* timer is not running.
C3_StopHalts == lastOp.op = "OnStopPSP" => ~timer

\* C4: whenever the timer is not running the interruption accumulator is
\* None, so that exactly one of not running, running and active, running
\* and interrupted holds.
C4_StoppedNotInterrupted == ~timer => psp_interruption = None

\* C5, for the operator's pause (a pause request while running and not
\* interrupted moves the stopwatch to Interrupted, whoever asks): the pause
\* button or menu entry, used while the timer runs and no interruption is
\* counted, sets the accumulator to 0 and logs the begin of the
\* interruption.
C5_OperatorPauseInterrupts ==
    [][\A message \in Messages :
          (PauseOf(MenuEvent, message) /\ timer /\ psp_interruption = None) =>
             /\ psp_interruption' = 0
             /\ timer'
             /\ Len(log') = Len(log) + 1
             /\ LastLine(log').event = "pausing!"]_vars

\* C6, for a resume that ends an interruption: PSPResume while interrupted
\* and running, with automatic tracking on and the task not suspended,
\* resets the accumulator, keeps the timer running, logs the end of the
\* interruption with the comment and records with it the seconds the
\* interruption lasted.
C6_ResumeRecordsDuration ==
    [][\A message \in Messages :
          (ResumeOf(message) /\ psp_interruption # None /\ timer
              /\ psp_automatic_stopwatch /\ ~task_suspended) =>
             /\ psp_interruption' = None
             /\ timer'
             /\ log' = Append(log, Line("resuming", "-", message))
             /\ Comments(times', psp_phase_choice)
                    = Append(Comments(times, psp_phase_choice),
                             <<message, psp_interruption>>)]_vars

\* C7: start() while the timer is running changes neither the timer, the
\* accumulator, the automatic flag nor the log.
C7_StartWhileRunning ==
    [][(Start /\ timer) =>
          UNCHANGED <<timer, psp_interruption, psp_automatic_stopwatch,
                      log>>]_vars

\* C8, as stated: with automatic tracking off, a tick changes no time
\* total, not the accumulator and no fix_time.
C8_TicksIgnoredInManual ==
    [][(Tick /\ ~psp_automatic_stopwatch) =>
          UNCHANGED <<times, psp_interruption, defects>>]_vars

\* C8, amended: a tick does not look at the automatic flag.  With automatic
\* tracking off, a tick with a phase and a task selected and the task not
\* suspended still adds exactly 1 to one of actual, off_task and
\* interruption of the phase, and a running accumulator still advances.
C8_TicksCountInManual ==
    [][(Tick /\ ~psp_automatic_stopwatch /\ Counting) =>
          /\ \E k \in DurationKeys :
                /\ Tm(times', psp_phase_choice, k)
                       = Tm(times, psp_phase_choice, k) + 1
                /\ \A j \in DurationKeys \ {k} :
                      Tm(times', psp_phase_choice, j)
                          = Tm(times, psp_phase_choice, j)
          /\ psp_interruption # None =>
                psp_interruption' = psp_interruption + 1]_vars

\* A second counted after the operator started the stopwatch by hand.
C8_Witness ==
    /\ lastOp.op = "TimerHandler"
    /\ ~psp_automatic_stopwatch /\ Counting /\ timer
    /\ Tm(times, psp_phase_choice, "actual") = 1

\* C9: while the automatic flag is off, as after a stop by the operator, a
\* pause or resume request of a probe changes nothing: the timer stays as
\* it is, the accumulator too, and no line is logged.
C9_ManualNotUndone ==
    [][((Interrupt \/ Resume) /\ ~psp_automatic_stopwatch) =>
          UNCHANGED progVars]_vars

\* A probe request that found the stopwatch stopped by the operator.
C9_Witness ==
    /\ lastOp.op \in {"PSPInterrupt", "PSPResume"}
    /\ ~psp_automatic_stopwatch /\ ~timer /\ ~task_suspended
    /\ log # <<>> /\ LastLine(log).event = "stop"

---------------------------------------------------------------------------
\* The defect recording log.

\* C10: adding, with no key, an item whose summary, date, filename, lineno
\* and offset equal those of a stored defect stores nothing, changes no
\* stored field and no row, and logs one dup_defect line with the uuid of
\* that defect and no new_defect line.
C10_DuplicateNotAdded ==
    [][\A summary \in Summaries, lineno \in Linenos :
          LET item == NewItem(summary, lineno)
              same == {k \in DOMAIN defects :
                          /\ defects[k]["summary"] = summary
                          /\ defects[k]["date"] = item["date"]
                          /\ defects[k]["filename"] = item["filename"]
                          /\ defects[k]["lineno"] = lineno
                          /\ defects[k]["offset"] = item["offset"]}
          IN (AddOf(item) /\ defects_loaded /\ same # {}) =>
                /\ defects' = defects
                /\ rows' = rows
                /\ key_map' = key_map
                /\ next_uuid' = next_uuid
                /\ Len(log') = Len(log) + 1
                /\ SubSeq(log', 1, Len(log)) = log
                /\ LastLine(log').event = "dup_defect"
                /\ LastLine(log').uuid \in same]_vars

\* A duplicate was reported while its defect is stored.
C10_Witness ==
    /\ lastOp.op = "AddItem"
    /\ defects_loaded
    /\ log # <<>> /\ LastLine(log).event = "dup_defect"
    /\ LastLine(log).uuid \in DOMAIN defects
    /\ SameDefect(defects[LastLine(log).uuid], LastLine(log).item[1])

\* C11: an add that did something (it logged new_defect or dup_defect)
\* returns a key: the uuid of the stored duplicate, or the key generated for
\* the new record, which is the uuid of the line it logged.
C11_AddReturnsKey ==
    [][(Add /\ Len(log') > Len(log)) =>
          lastOp'.returned = LastLine(log').uuid]_vars

\* C12: a number-less item that is inserted gets the number 1 + the maximum
\* of the numbers stored (1 on an empty store), so it exceeds the number of
\* every stored defect, the one added just before included; and at all
\* times no two stored defects have the same number.  Numbers are read as
\* the code reads them, with int().
C12_NumberIsMaxPlusOne ==
    /\ [](\A j, k \in DOMAIN defects :
             j # k => int(defects[j]["number"]) # int(defects[k]["number"]))
    /\ [][(Add /\ next_uuid' # next_uuid) =>
             LET new == defects'[UUIDS[next_uuid']]["number"]
             IN /\ int(new) = 1 + SetMax(Numbers(defects))
                /\ DOMAIN defects = {} => new = 1
                /\ \A k \in DOMAIN defects :
                      int(new) > int(defects[k]["number"])]_vars

\* Two adds, a delete of the first defect and a third add: the store holds
\* the numbers 2 and 3.
C12_Witness ==
    /\ lastOp.op = "AddItem"
    /\ next_uuid = 3
    /\ DOMAIN defects = {"u2", "u3"}
    /\ int(defects["u2"]["number"]) = 2
    /\ int(defects["u3"]["number"]) = 3

---------------------------------------------------------------------------
\* The check box of a defect.

\* The defect shown at row index, when the row, its key and the store are
\* there.
Listed(index) ==
    /\ ValidRow(St, index)
    /\ rows[index + 1].data \in DOMAIN key_map
    /\ defects_loaded
    /\ key_map[rows[index + 1].data] \in DOMAIN defects

KeyOfRow(index) == key_map[rows[index + 1].data]

\* The calls of OnCheckItem(index, flag, wontfix) the program makes on a
\* defect whose checked differs from flag: a click on the check box (the
\* flag is the new state of the box, no wontfix), and the menu entries on
\* an unchecked defect (flag True).  The step is told by the handler it
\* records.
SetChecked(index, flag, wontfix) ==
    /\ lastOp'.index = index
    /\ \/ /\ lastOp'.op = "ToggleItem"
          /\ flag = ~defects[KeyOfRow(index)]["checked"]
          /\ ~wontfix
       \/ /\ lastOp'.op = "OnChangeItem"
          /\ lastOp'.wontfix = wontfix
          /\ flag /\ ~defects[KeyOfRow(index)]["checked"]

C14_RemovePhaseOnce ==
    /\ [](\A index \in 0..(Len(rows) - 1), flag, wontfix, strict \in BOOLEAN :
             Listed(index) =>
                LET k == KeyOfRow(index)
                    s2 == OnCheckItem(St, index, flag, wontfix, strict)
                IN /\ defects[k]["remove_phase"] # "" =>
                         s2.defects[k]["remove_phase"]
                             = defects[k]["remove_phase"]
                   /\ defects[k]["checked"] = flag => s2 = St)
    /\ [][\A k \in DOMAIN defects :
             defects[k]["remove_phase"] # "" =>
                /\ k \in DOMAIN defects'
                /\ defects'[k]["remove_phase"] = defects[k]["remove_phase"]]_vars

\* A defect checked in phase code, unchecked, and checked again in phase
\* test: its remove phase is still code.
C14_Witness ==
    /\ lastOp.op \in {"ToggleItem", "OnChangeItem"}
    /\ psp_phase_choice = "test"
    /\ "u1" \in DOMAIN defects
    /\ defects["u1"]["checked"]
    /\ defects["u1"]["remove_phase"] = "code"
    /\ Len(log) >= 4
    /\ log[Len(log) - 2].event = "checked_defect"
    /\ log[Len(log) - 1].event = "unchecked_defect"
    /\ LastLine(log).event = "checked_defect"

---------------------------------------------------------------------------
\* The fix time of the defect under repair.

\* C15: a tick that counts (phase and task selected, task not suspended,
\* times loaded), with a listed defect under repair, completes and: when
\* the stopwatch is not interrupted and the defect is unchecked, adds
\* exactly 1 to its fix_time; when the defect is checked, or the stopwatch
\* is interrupted, changes no defect; and never changes another defect.
C15_FixTimeTick ==
    [][(/\ lastOp'.op = "TimerHandler"
        /\ Counting /\ times_loaded
        /\ selecteditemindex # None
        /\ Listed(selecteditemindex)) =>
          LET k == KeyOfRow(selecteditemindex)
          IN /\ lastOp'.raised = ""
             /\ \A j \in DOMAIN defects \ {k} : defects'[j] = defects[j]
             /\ IF psp_interruption = None /\ ~defects[k]["checked"]
                THEN /\ defects[k]["fix_time"] # None
                     /\ defects'[k] =
                           [defects[k] EXCEPT !["fix_time"] = @ + 1]
                ELSE defects'[k] = defects[k]]_vars

---------------------------------------------------------------------------
\* Delete all.

\* C16: when delete_all() has returned, the store of the task holds no
\* defect record (so a reload of the task shows none).
C16_DeleteAllEmptiesStore ==
    lastOp.op = "DeleteAllItems" => DOMAIN defects = {}

---------------------------------------------------------------------------
\* The metadata of the lines of a file.

\* A call of update_metadata(f) in this state rebuilds: there is no cache
\* entry for f, or the file has another time stamp.
Stale(f) ==
    \/ f \notin DOMAIN psp_metadata_cache
    \/ psp_metadata_cache[f].timestamp # files[f].mtime

\* The step called update_metadata(f): from the menu, or at a change of
\* phase with f in the active editor and a current phase to end.
Looked(f) ==
    /\ lastOp'.op \in {"update_metadata", "SetPSPPhase"}
    /\ lastOp'.filename = f
    /\ lastOp'.op = "SetPSPPhase" => current_psp_phase # ""
    /\ f \in DOMAIN files

ExampleOld == [i \in 0..4 |-> [phase |-> "code", line |-> "x"]]

ExampleNew == <<"x", "x", "x", "y", "x", "x">>

ExampleChanges ==
    {<<0, 0>>, <<1, 1>>, <<2, 2>>, <<None, 3>>, <<3, 4>>, <<4, 5>>}

ExampleState ==
    [St EXCEPT !.current_psp_phase = "test",
               !.files = Put(@, "a.py", [lines |-> ExampleNew, mtime |-> 1]),
               !.metadata_files = Put(@, "a.py", ExampleOld),
               !.psp_metadata_cache =
                   Put(@, "a.py", [timestamp |-> 0, metadata |-> ExampleOld])]

---------------------------------------------------------------------------
\* The inject phase of a reported defect.

\* C20: when a defect that is not yet stored is reported for a file that
\* is missing, or for a line number past the end of the file, while a task
\* is loaded, the report completes and the defect is stored, with an empty
\* inject phase.
C20_LookupFailureFallsBack ==
    [][\A f \in Paths, lineno \in 1..MaxLines :
          (/\ lastOp'.op = "NotifyDefect"
           /\ lastOp'.filename = f /\ lastOp'.lineno = lineno
           /\ defects_loaded
           /\ f \notin DOMAIN files \/ lineno > Len(files[f].lines)
           /\ DupKeys(St, [NewItem("s1", lineno) EXCEPT
                               !["filename"] = f]) = {}) =>
             /\ lastOp'.raised = ""
             /\ \E k \in (DOMAIN defects') \ (DOMAIN defects) :
                   /\ defects'[k]["filename"] = f
                   /\ defects'[k]["lineno"] = lineno
                   /\ defects'[k]["inject_phase"] = ""]_vars

\* C21: a report for a file that is there and a line number the metadata
\* of the file does not hold ends with an error (KeyError) and stores and
\* logs nothing: no defect gets a default phase, neither the current phase
\* nor the empty one.
C21_OutOfRangeFails ==
    [][\A f \in Paths, lineno \in 1..MaxLines :
          (/\ lastOp'.op = "NotifyDefect"
           /\ lastOp'.filename = f /\ lastOp'.lineno = lineno
           /\ f \in DOMAIN files
           /\ (lineno - 1) \notin DOMAIN psp_metadata_cache'[f].metadata) =>
             /\ lastOp'.raised = "KeyError"
             /\ defects' = defects
             /\ rows' = rows
             /\ log' = log]_vars

\* A report for line 3 of a file of two lines, with a task loaded, failed.
C21_Witness ==
    /\ lastOp.op = "NotifyDefect"
    /\ lastOp.filename = "a.py" /\ lastOp.lineno = 3
    /\ lastOp.raised = "KeyError"
    /\ defects_loaded
    /\ "a.py" \in DOMAIN files
    /\ DOMAIN psp_metadata_cache["a.py"].metadata = 0..1

---------------------------------------------------------------------------
\* The texts of the time counts.

\* The text is a number of digits only.
DigitsOnly(text) ==
    text # <<>> /\ \A i \in 1..Len(text) : isdigit(text[i])

\* C23: parse_time of a text of digits only returns the number the digits
\* write, in seconds: without unit the factor is 1.
C23_NoUnitIsSeconds ==
    (lastOp.op = "parse_time" /\ DigitsOnly(user_input)) =>
        /\ lastOp.raised = ""
        /\ lastOp.value.num = DigitsValue(user_input) * lastOp.value.den

\* The text is a number followed, with blanks or without, by a word of
\* letters that is none of s, m and h.
UnknownUnit(text) ==
    \E k \in 1..(Len(text) - 1) :
        LET unit == strip(SubSeq(text, k + 1, Len(text)))
        IN /\ IsFloat(SubSeq(text, 1, k))
           /\ unit # <<>>
           /\ \A i \in 1..Len(unit) : unit[i] \in {"s", "m", "h", "M", "x"}
           /\ [i \in 1..Len(unit) |-> lower(unit[i])]
                  \notin {<<"s">>, <<"m">>, <<"h">>}

\* C24: parse_time of a number followed by a unit that is none of s, m and
\* h returns no value: it fails, and with another error than the ValueError
\* float() raises for a text that is no number.
C24_UnknownUnitFails ==
    (lastOp.op = "parse_time" /\ UnknownUnit(user_input)) =>
        /\ lastOp.raised # ""
        /\ lastOp.raised # "ValueError"

\* The number and the unit of a rendered text "number unit".
ShownNumber(text) == SubSeq(text, 1, Len(text) - 2)

ShownUnit(text) == text[Len(text)]

\* C25: pretty_time of a count x >= 0 ends with " s" for x < 60, " m" for
\* 60 <= x < 3600 and " h" otherwise; the number before it is x / factor in
\* digits only when x is a multiple of the factor (1, 60, 3600), and
\* otherwise digits, a point and two digits that write the hundredth
\* nearest to x / factor.  pretty_time(0) = "0 s", pretty_time(90) =
\* "1.50 m", pretty_time(3600) = "1 h".
C25_PrettyTime ==
    /\ pretty_time(0) = <<"0", " ", "s">>
    /\ pretty_time(90) = <<"1", ".", "5", "0", " ", "m">>
    /\ pretty_time(3600) = <<"1", " ", "h">>
    /\ (lastOp.op = "pretty_time" /\ counter # None) =>
          LET x == counter
              factor == IF x < 60 THEN 1 ELSE IF x < 3600 THEN 60 ELSE 3600
              unit == IF x < 60 THEN "s" ELSE IF x < 3600 THEN "m" ELSE "h"
              number == ShownNumber(user_input)
          IN /\ Len(user_input) >= 3
             /\ ShownUnit(user_input) = unit
             /\ user_input[Len(user_input) - 1] = " "
             /\ IF x % factor = 0
                THEN /\ DigitsOnly(number)
                     /\ DigitsValue(number) = x \div factor
                ELSE /\ Len(number) >= 4
                     /\ number[Len(number) - 2] = "."
                     /\ IsFloat(number)
                     /\ float(number).den = 100
                     /\ LET d == float(number).num * factor - 100 * x
                        IN 2 * d <= factor /\ 2 * d >= 0 - factor

\* A count of 1 h 1 min 1 s rendered in hours with two decimals.
C25_Witness ==
    /\ lastOp.op = "pretty_time"
    /\ counter = 3661
    /\ user_input = <<"1", ".", "0", "2", " ", "h">>

\* The factor of the unit pretty_time chooses for x.
ShownFactor(x) == IF x < 60 THEN 1 ELSE IF x < 3600 THEN 60 ELSE 3600

\* C26: the text pretty_time renders for a count x >= 0 that is a multiple
\* of the factor of its unit is parsed by parse_time to x.
C26_RoundTrip ==
    [][(/\ lastOp.op = "pretty_time" /\ lastOp'.op = "parse_time"
        /\ counter # None
        /\ counter % ShownFactor(counter) = 0) =>
          /\ lastOp'.raised = ""
          /\ lastOp'.value.num = counter * lastOp'.value.den]_vars

\* One hour rendered as "1 h" and parsed to 3600.
C26_Witness ==
    /\ lastOp.op = "parse_time"
    /\ counter = 3600
    /\ user_input = <<"1", " ", "h">>
    /\ lastOp.raised = ""
    /\ lastOp.value = [num |-> 3600, den |-> 1]

---------------------------------------------------------------------------
\* The plan summary.

\* C27: no step but an edit of a plan cell changes the plan of a phase, a
\* tick in particular; and no step but an edit of a cell (a tick, a start,
\* pause, resume or stop, a task activated) lessens the actual,
\* interruption or off_task total of a phase.
C27_PlanOnlyEdited ==
    [][/\ \A p \in Phases :
             Tm(times', p, "plan") # Tm(times, p, "plan") =>
                lastOp'.op = "SetValue" /\ PSP_TIMES[lastOp'.col + 1] = "plan"
       /\ lastOp'.op # "SetValue" =>
             \A p \in Phases, k \in DurationKeys :
                Tm(times', p, k) >= Tm(times, p, k)]_vars

\* A tick counted a second of actual time on a phase whose plan is 1 s.
C27_Witness ==
    /\ lastOp.op = "TimerHandler"
    /\ Counting /\ timer
    /\ Tm(times, psp_phase_choice, "plan") = 1
    /\ Tm(times, psp_phase_choice, "actual") = 1

---------------------------------------------------------------------------
\* The shelves: every operation that writes a defect or a time, with one
\* task; the operator sets the plan of phase code.

\* The task is worked on in phase code.
InitStore == Init /\ psp_phase_choice = "code"

\* MaxStored: the defects added to the store in all.
MaxStored == 2

AddStored == next_uuid < MaxStored /\ AddOf(NewItem("s1", 1))

NextStore ==
    \/ ActivateTask
    \/ AddStored
    \/ SelectItem
    \/ ActivateItem
    \/ ClickItem
    \/ DeleteItem
    \/ DeleteAll
    \/ EditItemOf("s2")
    \/ TickOf(TRUE)
    \/ SetValueOf(2, 0)

SpecStore == InitStore /\ [][NextStore]_vars

---------------------------------------------------------------------------
\* The completion check in every phase: a task with an estimate for phase
\* code or without, seconds counted, and the defect the checker or the
\* tester reports, checked or not.

\* The phase the work starts in is chosen before the task is opened.
ChooseFirstPhase == ~task_id /\ log = <<>> /\ ChooseAnyPhase

NextCheckPSP ==
    \/ ActivateTask
    \/ ChooseFirstPhase
    \/ SetValueOf(2, 0)
    \/ TickOf(TRUE)
    \/ ClickItem
    \/ CheckPSPOf(ID_CHECK, "a.py")

SpecCheckPSP == InitStore /\ [][NextCheckPSP]_vars

---------------------------------------------------------------------------
\* The event log.

\* The state of the stopwatch.
Stopwatch(running, interruption) ==
    IF ~running THEN "Stopped"
    ELSE IF interruption # None THEN "Interrupted"
    ELSE "Running"

\* C28: a step that changes the state of the stopwatch (Stopped, Running,
\* Interrupted) appends at least one line to the log; every line a step
\* appends carries the uuid "-" and the phase chosen at that moment; the
\* lines logged before stay as they are, in their places; and a tick
\* appends nothing.
C28_TransitionsLogged ==
    [][/\ Len(log') >= Len(log)
       /\ SubSeq(log', 1, Len(log)) = log
       /\ \A i \in (Len(log) + 1)..Len(log') :
             log'[i].uuid = "-" /\ log'[i].phase = psp_phase_choice
       /\ Stopwatch(timer', psp_interruption')
              # Stopwatch(timer, psp_interruption) => Len(log') > Len(log)
       /\ lastOp'.op = "TimerHandler" => log' = log]_vars

\* Started and interrupted in phase code, resumed and stopped in phase
\* test: four lines, each with the phase of its moment.
C28_Witness ==
    /\ lastOp.op = "OnStopPSP"
    /\ ~timer
    /\ Len(log) = 4
    /\ [i \in 1..4 |-> log[i].event]
           = <<"start", "pausing!", "resuming", "stop">>
    /\ [i \in 1..4 |-> log[i].phase] = <<"code", "code", "test", "test">>

\* The events of the lines a step appends to the log.
Appended(before, after) ==
    [i \in 1..(Len(after) - Len(before)) |-> after[Len(before) + i].event]

\* C30: a stop of the ticking, interrupted stopwatch appends the end of
\* the interruption ("resuming") before the "stop" line, and appends no
\* "start" line.
C30_StopClosesInterruption ==
    [][(lastOp'.op = "OnStopPSP" /\ timer /\ psp_interruption # None)
          => LET new == Appended(log, log')
             IN /\ \E i, j \in 1..Len(new) :
                      i < j /\ new[i] = "resuming" /\ new[j] = "stop"
                /\ \A i \in 1..Len(new) : new[i] # "start"]_vars

---------------------------------------------------------------------------
\* The shelves and the database.

\* The operations that write a defect or a time.
Mutating ==
    {"AddItem", "ToggleItem", "OnDeleteItem", "DeleteAllItems", "OnEditItem",
     "TimerHandler", "SetValue"}

\* C29: after an operation that writes a defect or a time has returned,
\* the records of both shelves are the records last written to the
\* database: nothing the operation changed is left unsynced.
C29_Synced ==
    (lastOp.op \in Mutating /\ lastOp.raised = "")
        => /\ synced.defect = defects
           /\ synced.time_summary = times

\* An edit has changed the fix time of a defect, a plan is set and seconds
\* are counted, and both shelves are written.
C29_Witness ==
    /\ lastOp.op = "OnEditItem" /\ lastOp.raised = ""
    /\ \E k \in DOMAIN defects :
          /\ defects[k]["fix_time"] = 2
          /\ "description" \in DOMAIN defects[k]
    /\ \E phase \in DOMAIN times :
          /\ Get(times[phase], "plan", 0) > 0
          /\ Get(times[phase], "actual", 0) > 0
    /\ synced.defect = defects
    /\ synced.time_summary = times

---------------------------------------------------------------------------
\* The completion check.

\* The phase a check is about: compile and test for the events of the run
\* menu, the chosen phase otherwise.
CheckedPhase(evt_id, chosen) ==
    IF evt_id = ID_COMPILE THEN "compile"
    ELSE IF evt_id = ID_TEST THEN "test"
    ELSE chosen

\* What a check of phase p has to find: a phase without an estimate in
\* planning, a report of the checker or the tester in compile and test, a
\* defect without a remove phase in postmortem.
Finds(p, found, table, data) ==
    \/ p = "planning" /\ \E k \in DOMAIN table : Get(table[k], "plan", 0) = 0
    \/ p \in {"compile", "test"} /\ found
    \/ p = "postmortem" /\ \E k \in DOMAIN data : data[k]["remove_phase"] = ""

\* C31: with a task loaded and a file in the active editor, a check of
\* phase p that finds nothing leaves the stopwatch stopped and the phase
\* the one after p in PSP_PHASES (none after postmortem); a check that
\* finds something leaves the phase p.
C31_CheckAdvances ==
    [][(/\ lastOp'.op = "OnCheckPSP"
        /\ lastOp'.filename # NoFile
        /\ times_loaded /\ defects_loaded
        /\ CheckedPhase(lastOp'.evt_id, psp_phase_choice) \in Phases)
          => LET p == CheckedPhase(lastOp'.evt_id, psp_phase_choice)
             IN IF Finds(p, lastOp'.found, times, defects)
                THEN psp_phase_choice' = p
                ELSE /\ ~timer'
                     /\ psp_phase_choice' = PhaseAfter(PhaseIndex(p))
                     /\ current_psp_phase' = PhaseAfter(PhaseIndex(p))]_vars

---------------------------------------------------------------------------
\* The change of phase and the metadata.

\* The phases a metadata attributes lines to.
PhasesOf(metadata) == {metadata[i].phase : i \in DOMAIN metadata}

---------------------------------------------------------------------------
\* The rows of the list and the keys of the store.

\* C33: while a task is loaded, key_map resolves every row of the list to
\* a record of the store, and no two rows to the same key.
C33_RowsResolve ==
    defects_loaded
        => \A i \in 0..(Len(rows) - 1) :
              /\ Listed(i)
              /\ \A j \in 0..(Len(rows) - 1) :
                    (j # i /\ Listed(j)) => KeyOfRow(j) # KeyOfRow(i)

---------------------------------------------------------------------------
\* The tick and the defect under repair.

\* The lines of the log that record an activation.
Activations == {i \in 1..Len(log) : log[i].event = "activate_defect"}

\* The defect activated last, as OnItemActivated logged it.
ActivatedKey == log[SetMax(Activations)].uuid

\* C34: once the defect activated for the fix time is deleted, or all
\* defects are, a tick raises nothing and changes the fix time of no
\* defect.
C34_TickAfterDelete ==
    [][(/\ lastOp'.op = "TimerHandler"
        /\ selecteditemindex # None
        /\ Activations # {}
        /\ ~defects_loaded \/ ActivatedKey \notin DOMAIN defects)
          => /\ lastOp'.raised = ""
             /\ defects' = defects]_vars

\* C35: in every state, a fix-time tick on any listed unchecked defect
\* (the defect taken as the one under repair) raises nothing and leaves its
\* fix_time a number.
C35_TickSucceeds ==
    \A index \in 0..(Len(rows) - 1), strict \in BOOLEAN :
        (Listed(index) /\ ~defects[KeyOfRow(index)]["checked"])
            => LET s2 == DefectListCtrl_count(
                             [St EXCEPT !.selecteditemindex = index], strict)
               IN /\ s2.raised = ""
                  /\ s2.defects[KeyOfRow(index)]["fix_time"] # None

---------------------------------------------------------------------------
\* Checked defects and the postmortem check.

\* C36: in every state, a checked defect of the store has a remove phase
\* that is not empty, so it is no error of the postmortem check.
C36_CheckedHasRemovePhase ==
    \A k \in DOMAIN defects :
        defects[k]["checked"] => defects[k]["remove_phase"] # ""

===========================================================================
